---- MODULE Spec2Model ----
(***************************************************************************)
(* Model of terraform-provider-pteraform: the pteraform_apply resource     *)
(* (ApplyResource) that runs `terraform init` and `terraform apply` in a   *)
(* working directory and uses the SHA-256 of terraform.tfstate as its id.  *)
(*                                                                         *)
(* Every handler (Create, Read, Update, Delete, ImportState) is one        *)
(* synchronous call, modelled as one action.  The external terraform       *)
(* processes and the files on disk are the environment: their exit status  *)
(* and what they write are chosen nondeterministically.                    *)
(***************************************************************************)
EXTENDS Naturals, Sequences, FiniteSets, TLC

VARIABLES
    fs,      \* the disk: for every directory, its configuration and its terraform.tfstate
    state,   \* the framework's state store: per resource, the ApplyResourceModel last set
    last,    \* the response of the call that has just returned ("none" after a disk change)
    dirty,   \* the directories a user edited and in which no apply has run since
    calls    \* per resource, the locals of the call in progress when calls are followed step by step

vars == <<fs, state, last, dirty, calls>>

(***************************************************************************)
(*                            Bounds and universes                         *)
(***************************************************************************)
\* Longest args list a plan carries.
MaxArgs == 2

\* Most chunks a process writes to its stdout and stderr where its output
\* is varied.
MaxOut == 2

\* The two resources of the README / acceptance test, named after their directory.
Units == {"first", "second"}

\* "." is the provider process's own working directory: the directory a
\* relative path resolves in when working_dir is the empty string.
Dirs == Units \cup {"."}

\* Byte contents a terraform.tfstate can have (the empty file included).
Contents == {"", "serial=1"}

\* Versions of the *.tf files of a directory.
Confs == {"main.tf#1", "main.tf#2"}

\* Elements an args list is made of; a null element is not a Go string.
ArgStrings == {"-var=a=1", "-var=b=2"}

\* Ids a user passes to `terraform import`.
ImportIds == {"my-import-id"}

(***************************************************************************)
(*                    terraform-plugin-framework values                    *)
(***************************************************************************)
\* types.String: null, unknown or a known value.  ValueString() of a null or
\* unknown string is "".
NewStringValue(v) == [kind |-> "known", value |-> v]
NullString == [kind |-> "null", value |-> ""]
UnknownString == [kind |-> "unknown", value |-> ""]
ValueString(s) == IF s.kind = "known" THEN s.value ELSE ""

\* types.List of strings: null or a known sequence of types.String elements.
NewListValue(elems) == [kind |-> "known", elems |-> elems]
NullList == [kind |-> "null", elems |-> <<>>]

\* List.ElementsAs(ctx, &args, false) with args of type []string: a null list
\* gives a nil slice; a null or unknown element cannot be put in a Go string
\* and is an error diagnostic.
ElementsAs(list) ==
    IF \E i \in 1..Len(list.elems) : list.elems[i].kind # "known"
    THEN [hasError |-> TRUE, out |-> <<>>]
    ELSE [hasError |-> FALSE,
          out |-> [i \in 1..Len(list.elems) |-> list.elems[i].value]]

\* ApplyResourceModel
Model(wd, args, id) == [WorkingDir |-> wd, Args |-> args, Id |-> id]

\* No state stored for a resource.
NoRecord == [present |-> FALSE, data |-> Model(NullString, NullList, NullString)]
Record(data) == [present |-> TRUE, data |-> data]

ArgValues == {NewStringValue(v) : v \in ArgStrings} \cup {NullString}

SeqsUpTo(S, n) == UNION {[1..k -> S] : k \in 0..n}

(***************************************************************************)
(*                                The disk                                 *)
(***************************************************************************)
\* What a directory holds: its configuration files and its terraform.tfstate,
\* which is absent, readable with some bytes, or present but failing when read.
Dir(conf, art, bytes) == [conf |-> conf, art |-> art, bytes |-> bytes]

ArtifactStates ==
    {[art |-> "absent", bytes |-> ""], [art |-> "ioerr", bytes |-> ""]}
        \cup {[art |-> "ok", bytes |-> b] : b \in Contents}

\* filepath.Join(dir, "terraform.tfstate") and cmd.Dir = dir: the empty
\* string denotes the process's current directory.
Resolve(dir) == IF dir = "" THEN "." ELSE dir

\* crypto/sha256 over the bytes, rendered by fmt.Sprintf("%x", ...).
Sha256Hex(bytes) ==
    CASE bytes = "" ->
             "e3b0c44298fc1c149afbf4c8996fb92427ae41e4649b934ca495991b7852b855"
      [] bytes = "serial=1" ->
             "79b08114e8223e95749fa413ef4eda90863dce1747198b93f3e6e61046685022"
      [] bytes = "serial=2" ->
             "dfecae4a9d1bf78a0fea811a6676c8e798303ccfc35985194d723c83217bd187"

Digests == {Sha256Hex(b) : b \in Contents}

\* A Go error: nil, or the leading words of its message.
Nil == "<nil>"

\* ID() as it would be if the path were not joined with the working directory:
\* the terraform.tfstate of the process's own directory is hashed.
IDIgnoringWorkingDir(m, fsys) ==
    LET f == fsys["."]
    IN  IF f.art = "absent"
        THEN [id |-> "", err |-> "Unable to open terraform.tfstate"]
        ELSE IF f.art = "ioerr"
        THEN [id |-> "", err |-> "Unable to read terraform.tfstate"]
        ELSE [id |-> Sha256Hex(f.bytes), err |-> Nil]

\* func (m *ApplyResourceModel) ID() (string, error)
ID(m, fsys) ==
    LET f == fsys[Resolve(ValueString(m.WorkingDir))]
    IN  IF f.art = "absent"
        THEN [id |-> "", err |-> "Unable to open terraform.tfstate"]
        ELSE IF f.art = "ioerr"
        THEN [id |-> "", err |-> "Unable to read terraform.tfstate"]
        ELSE [id |-> Sha256Hex(f.bytes), err |-> Nil]

(***************************************************************************)
(*                          The external processes                         *)
(***************************************************************************)
\* What one provisioning cycle meets: whether `terraform init` and
\* `terraform apply` exit with status 0, and what apply leaves on disk
\* (a failing apply may still have written a state; an apply with a remote
\* backend writes none).
NoWrite == [write |-> FALSE, art |-> "absent", bytes |-> ""]
Writes == {NoWrite} \cup {[write |-> TRUE, art |-> "ok", bytes |-> b] : b \in Contents}

\* What a process writes to its stdout and stderr, both of which are the one
\* buffer of doApply: the chunks in the order written.  Where the output is
\* not varied every process writes SomeOutput.
SomeOutput == <<"out">>

Env(initOk, applyOk, w) ==
    [initOk |-> initOk, applyOk |-> applyOk, w |-> w,
     initOut |-> SomeOutput, applyOut |-> SomeOutput]
\* When init fails there is no apply process whose outcome could vary.
Envs == {Env(FALSE, FALSE, NoWrite)} \cup {Env(TRUE, ok, w) : ok \in BOOLEAN, w \in Writes}

\* One cmd.Run(): the directory, the command line, whether err == nil, and
\* what the process wrote.
Cmd(dir, argv, ok, out) == [Dir |-> dir, Args |-> argv, ok |-> ok, out |-> out]

\* var buf bytes.Buffer; cmd.Stdout = &buf; cmd.Stderr = &buf; buf.Reset()
EmptyBuffer == <<>>
Write(buf, out) == buf \o out
Reset(buf) == <<>>

\* exec.CommandContext(ctx, "terraform", "init")
InitArgv == <<"terraform", "init">>

\* The apply command line as it would be if the caller's args were put in
\* front of the fixed flags.
ApplyArgvArgsFirst(args) == <<"terraform">> \o args \o <<"apply", "-auto-approve">>

\* exec.CommandContext(ctx, "terraform", append([]string{"apply", "-auto-approve"}, args...)...)
ApplyArgv(args) == <<"terraform", "apply", "-auto-approve">> \o args

\* The effect of the apply process on the disk.
TerraformApply(fsys, dir, w) ==
    IF w.write
    THEN [fsys EXCEPT ![Resolve(dir)] = Dir(@.conf, w.art, w.bytes)]
    ELSE fsys

\* doApply as it would be if the error of init were not returned: apply runs
\* after a failed init and the error is apply's.
doApplyUngated(data, fsys, env) ==
    LET dir == ValueString(data.WorkingDir)
        init == Cmd(dir, InitArgv, env.initOk, env.initOut)
        ea == ElementsAs(data.Args)
        apply == Cmd(dir, ApplyArgv(ea.out), env.applyOk, env.applyOut)
    IN  IF ea.hasError
        THEN [err |-> "errors getting args", output |-> <<>>, cmds |-> <<init>>, fs |-> fsys]
        ELSE [err |-> IF env.applyOk THEN Nil ELSE "terraform apply failed",
              output |-> IF env.applyOk THEN <<>> ELSE env.applyOut,
              cmds |-> <<init, apply>>,
              fs |-> TerraformApply(fsys, dir, env.w)]

\* doApply as it would be if a cycle that failed were run once more.
doApplyRetrying(data, fsys, env) ==
    LET once == doApplyUngated(data, fsys, env)
        dir == ValueString(data.WorkingDir)
        init == Cmd(dir, InitArgv, env.initOk, env.initOut)
    IN  IF ~env.initOk
        THEN [err |-> "terraform init failed", output |-> env.initOut,
              cmds |-> <<init, init>>, fs |-> fsys]
        ELSE IF once.err = Nil
        THEN once
        ELSE [err |-> once.err, output |-> once.output,
              cmds |-> once.cmds \o once.cmds, fs |-> once.fs]

\* doApply as it would be without the buf.Reset() after init: the buffer
\* apply writes to still holds what init wrote.
doApplyNoReset(data, fsys, env) ==
    LET dir == ValueString(data.WorkingDir)
        init == Cmd(dir, InitArgv, env.initOk, env.initOut)
        ea == ElementsAs(data.Args)
        apply == Cmd(dir, ApplyArgv(ea.out), env.applyOk, env.applyOut)
        bufInit == Write(EmptyBuffer, init.out)
        bufApply == Write(bufInit, apply.out)
    IN  IF ~env.initOk
        THEN [err |-> "terraform init failed", output |-> bufInit,
              cmds |-> <<init>>, fs |-> fsys]
        ELSE IF ea.hasError
        THEN [err |-> "errors getting args", output |-> <<>>,
              cmds |-> <<init>>, fs |-> fsys]
        ELSE [err |-> IF env.applyOk THEN Nil ELSE "terraform apply failed",
              output |-> IF env.applyOk THEN <<>> ELSE bufApply,
              cmds |-> <<init, apply>>,
              fs |-> TerraformApply(fsys, dir, env.w)]

\* func (r *ApplyResource) doApply(ctx, data) error
\* Returns the error with the buf.String() that its message carries, the
\* commands that were run, and the disk afterwards.
doApply(data, fsys, env) ==
    LET dir == ValueString(data.WorkingDir)
        init == Cmd(dir, InitArgv, env.initOk, env.initOut)
        ea == ElementsAs(data.Args)
        apply == Cmd(dir, ApplyArgv(ea.out), env.applyOk, env.applyOut)
        bufInit == Write(EmptyBuffer, init.out)
        bufApply == Write(Reset(bufInit), apply.out)
    IN  IF ~env.initOk
        THEN [err |-> "terraform init failed", output |-> bufInit,
              cmds |-> <<init>>, fs |-> fsys]
        ELSE IF ea.hasError
        THEN [err |-> "errors getting args", output |-> <<>>,
              cmds |-> <<init>>, fs |-> fsys]
        ELSE [err |-> IF env.applyOk THEN Nil ELSE "terraform apply failed",
              output |-> IF env.applyOk THEN <<>> ELSE bufApply,
              cmds |-> <<init, apply>>,
              fs |-> TerraformApply(fsys, dir, env.w)]

(***************************************************************************)
(*                               The handlers                              *)
(***************************************************************************)
\* resp.Diagnostics.AddError("Client Error", fmt.Sprintf(prefix + "%s", err));
\* the detail is kept as the prefix and the wrapped error.
ErrorDiag(prefix, err) ==
    [severity |-> "error", summary |-> "Client Error", detail |-> <<prefix, err>>]

\* if err != nil { resp.Diagnostics.AddError(...) }
DiagIf(err, prefix) == IF err # Nil THEN <<ErrorDiag(prefix, err)>> ELSE <<>>

RunPrefix == "Unable to run terraform apply, got error: "
IdPrefix == "Unable to get ID, got error: "

\* The diagnostic of an error of doApply: the detail is the prefix, the
\* error, and the output the error's message ends with.
RunDiag(run) ==
    IF run.err # Nil
    THEN <<[ErrorDiag(RunPrefix, run.err) EXCEPT !.detail = Append(@, run.output)]>>
    ELSE <<>>

\* Create as it would be if the error of doApply were dropped.
CreateResponseSwallowing(data, fsys, env) ==
    LET run == doApply(data, fsys, env)
        r == ID(data, run.fs)
    IN  [diags |-> DiagIf(r.err, IdPrefix),
         req |-> data,
         cmds |-> run.cmds,
         resolved |-> TRUE,
         set |-> TRUE,
         record |-> Record([data EXCEPT !.Id = NewStringValue(r.id)]),
         fs |-> run.fs]

\* Create as it would be if it stored the args it had decoded for the
\* process, a list built anew from the strings: a plan without args comes
\* back with an empty list.
CreateResponseNormalising(data, fsys, env) ==
    LET run == doApply(data, fsys, env)
        r == ID(data, run.fs)
        args == NewListValue([i \in 1..Len(ElementsAs(data.Args).out) |->
                                 NewStringValue(ElementsAs(data.Args).out[i])])
    IN  [diags |-> RunDiag(run) \o DiagIf(r.err, IdPrefix),
         req |-> data,
         cmds |-> run.cmds,
         resolved |-> TRUE,
         set |-> TRUE,
         record |-> Record([data EXCEPT !.Id = NewStringValue(r.id), !.Args = args]),
         fs |-> run.fs]

\* The body of Create after req.Plan.Get: run the cycle, resolve the id,
\* set the state.  The response keeps the decoded model as req.  Plan.Get into framework types cannot fail, so the early
\* return of lines 123-125 is not taken.
CreateResponse(data, fsys, env) ==
    LET run == doApply(data, fsys, env)
        r == ID(data, run.fs)
    IN  [diags |-> RunDiag(run) \o DiagIf(r.err, IdPrefix),
         req |-> data,
         cmds |-> run.cmds,
         resolved |-> TRUE,
         set |-> TRUE,
         record |-> Record([data EXCEPT !.Id = NewStringValue(r.id)]),
         fs |-> run.fs]

\* Update as it would be if it provisioned only a resource that has no id
\* yet, and for one that has only resolved the id again.
UpdateResponseSkipping(data, fsys, env) ==
    LET run == IF data.Id.kind = "known"
               THEN [err |-> Nil, output |-> <<>>, cmds |-> <<>>, fs |-> fsys]
               ELSE doApply(data, fsys, env)
        r == ID(data, run.fs)
    IN  [diags |-> RunDiag(run) \o DiagIf(r.err, IdPrefix),
         req |-> data,
         cmds |-> run.cmds,
         resolved |-> TRUE,
         set |-> TRUE,
         record |-> Record([data EXCEPT !.Id = NewStringValue(r.id)]),
         fs |-> run.fs]

\* The body of Update after req.Plan.Get.
UpdateResponse(data, fsys, env) ==
    LET run == doApply(data, fsys, env)
        r == ID(data, run.fs)
    IN  [diags |-> RunDiag(run) \o DiagIf(r.err, IdPrefix),
         req |-> data,
         cmds |-> run.cmds,
         resolved |-> TRUE,
         set |-> TRUE,
         record |-> Record([data EXCEPT !.Id = NewStringValue(r.id)]),
         fs |-> run.fs]

\* Read as it would be if it returned right after the error of ID(): the
\* state keeps the id it had.
ReadResponseKeepingId(data, fsys) ==
    LET r == ID(data, fsys)
    IN  [diags |-> DiagIf(r.err, IdPrefix),
         req |-> data,
         cmds |-> <<>>,
         resolved |-> TRUE,
         set |-> r.err = Nil,
         record |-> Record(IF r.err = Nil
                           THEN [data EXCEPT !.Id = NewStringValue(r.id)]
                           ELSE data),
         fs |-> fsys]

\* Read as it would be if it built the record anew from the id alone
\* instead of writing the id into the record it had read.
ReadResponseFreshModel(data, fsys) ==
    LET r == ID(data, fsys)
    IN  [diags |-> DiagIf(r.err, IdPrefix),
         req |-> data,
         cmds |-> <<>>,
         resolved |-> TRUE,
         set |-> TRUE,
         record |-> Record(Model(NullString, NullList, NewStringValue(r.id))),
         fs |-> fsys]

\* Read as it would be if it ran the cycle before resolving the id, as
\* Create and Update do.
ReadResponseProvisioning(data, fsys) ==
    LET run == doApply(data, fsys,
                       Env(TRUE, TRUE, [write |-> TRUE, art |-> "ok", bytes |-> "serial=1"]))
        r == ID(data, run.fs)
    IN  [diags |-> RunDiag(run) \o DiagIf(r.err, IdPrefix),
         req |-> data,
         cmds |-> run.cmds,
         resolved |-> TRUE,
         set |-> TRUE,
         record |-> Record([data EXCEPT !.Id = NewStringValue(r.id)]),
         fs |-> run.fs]

\* The body of Read after req.State.Get.
ReadResponse(data, fsys) ==
    LET r == ID(data, fsys)
    IN  [diags |-> DiagIf(r.err, IdPrefix),
         req |-> data,
         cmds |-> <<>>,
         resolved |-> TRUE,
         set |-> TRUE,
         record |-> Record([data EXCEPT !.Id = NewStringValue(r.id)]),
         fs |-> fsys]

\* Delete as it would be if it ran `terraform destroy`, which rewrites the
\* state file.
DeleteResponseDestroying(data, fsys) ==
    LET dir == ValueString(data.WorkingDir)
    IN  [diags |-> <<>>,
         req |-> data,
         cmds |-> <<Cmd(dir, <<"terraform", "destroy", "-auto-approve">>, TRUE, SomeOutput)>>,
         resolved |-> FALSE,
         set |-> FALSE,
         record |-> NoRecord,
         fs |-> [fsys EXCEPT ![Resolve(dir)] = Dir(@.conf, "ok", "")]]

\* The body of Delete: nothing is done.  The framework removes the resource
\* from the state when Delete returns without an error diagnostic.
DeleteResponse(data, fsys) ==
    [diags |-> <<>>,
     req |-> data,
     cmds |-> <<>>,
     resolved |-> FALSE,
     set |-> FALSE,
     record |-> NoRecord,
     fs |-> fsys]

\* resource.ImportStatePassthroughID(ctx, path.Root("id"), req, resp): the
\* state holds the given id and nothing else.
ImportResponse(id, fsys) ==
    [diags |-> <<>>,
     req |-> Model(NullString, NullList, NewStringValue(id)),
     cmds |-> <<>>,
     resolved |-> FALSE,
     set |-> TRUE,
     record |-> Record(Model(NullString, NullList, NewStringValue(id))),
     fs |-> fsys]

\* The response of a call as the host sees it: the verb, the resource,
\* whether the state held a record and which id when the call began, whether
\* the directory had been edited since the last apply in it, the
\* diagnostics, the processes that were run, whether ID() and
\* resp.State.Set were called, whether the call is a Read that follows
\* directly on a Read of the same resource, the phase during which the
\* call's context was cancelled ("none" when it was not), and the model the
\* handler decoded from the plan or the prior state when it went on to set
\* the state.
Returned(verb, u, resp) ==
    [verb |-> verb, unit |-> u,
     existed |-> state[u].present, priorId |-> state[u].data.Id,
     changed |-> u \in dirty,
     diags |-> resp.diags, cmds |-> resp.cmds,
     resolved |-> resp.resolved, set |-> resp.set,
     reread |-> (verb = "Read" /\ last.verb = "Read" /\ last.unit = u),
     cancelled |-> "none",
     req |-> IF resp.set THEN resp.req ELSE NoRecord.data]

NoCall ==
    [verb |-> "none", unit |-> "",
     existed |-> FALSE, priorId |-> NullString, changed |-> FALSE,
     diags |-> <<>>, cmds |-> <<>>, resolved |-> FALSE, set |-> FALSE,
     reread |-> FALSE, cancelled |-> "none",
     req |-> NoRecord.data]

\* A call in progress, for the calls that are followed step by step: where
\* it stands, its verb, the model it decoded from the request (data), the
\* terraform.tfstate its directory held when it began, the processes it has
\* run and the error doApply has met so far with the output in its message,
\* and the outcomes of its processes.  These are the locals of the handler and of doApply.
Idle ==
    [pc |-> "idle", verb |-> "none", data |-> NoRecord.data,
     d0 |-> [art |-> "absent", bytes |-> ""],
     cmds |-> <<>>, err |-> Nil, output |-> <<>>, env |-> Env(FALSE, FALSE, NoWrite)]

\* An apply process that ran in a directory has taken up the user's edits.
Applied(cmds) == {Resolve(cmds[i].Dir) : i \in {j \in 1..Len(cmds) : cmds[j].Args # InitArgv}}

Finish(verb, u, resp) ==
    /\ fs' = resp.fs
    /\ state' = [state EXCEPT ![u] = resp.record]
    /\ last' = Returned(verb, u, resp)
    /\ dirty' = dirty \ Applied(resp.cmds)
    /\ UNCHANGED calls

\* Every args list up to MaxArgs elements, and the null list of a
\* configuration without args.
AllArgs == {NullList} \cup {NewListValue(a) : a \in SeqsUpTo(ArgValues, MaxArgs)}

\* The args of the README (none), a single flag as in the acceptance test,
\* and a list with a null element.
PlanArgs ==
    {NullList, NewListValue(<<NewStringValue("-var=a=1")>>), NewListValue(<<NullString>>)}

\* stringplanmodifier.UseStateForUnknown() on the computed "id": the planned
\* id is the prior state's id when there is one, and unknown otherwise.
PlannedId(prior) ==
    IF prior.present /\ prior.data.Id.kind # "null" THEN prior.data.Id ELSE UnknownString

Create(u, wd, args, env) ==
    /\ ~state[u].present
    /\ Finish("Create", u,
              CreateResponse(Model(NewStringValue(wd), args, UnknownString), fs, env))

Read(u) ==
    /\ state[u].present
    /\ Finish("Read", u, ReadResponse(state[u].data, fs))

Update(u, wd, args, env) ==
    /\ state[u].present
    /\ Finish("Update", u,
              UpdateResponse(Model(NewStringValue(wd), args, PlannedId(state[u])), fs, env))

Delete(u) ==
    /\ state[u].present
    /\ Finish("Delete", u, DeleteResponse(state[u].data, fs))

ImportState(u, id) ==
    /\ ~state[u].present
    /\ Finish("ImportState", u, ImportResponse(id, fs))

\* The process's own directory is the host's: it holds the host's state file
\* or none.  A managed directory can hold any terraform.tfstate.
ArtifactsOf(d) ==
    IF d = "."
    THEN {[art |-> "absent", bytes |-> ""], [art |-> "ok", bytes |-> "serial=1"]}
    ELSE ArtifactStates

\* Something other than the provider changes the terraform.tfstate of a directory.
ArtifactChange(d, a) ==
    /\ a \in ArtifactsOf(d)
    /\ a # [art |-> fs[d].art, bytes |-> fs[d].bytes]
    /\ fs' = [fs EXCEPT ![d] = Dir(@.conf, a.art, a.bytes)]
    /\ last' = NoCall
    /\ UNCHANGED <<state, dirty, calls>>

Init ==
    /\ fs = [d \in Dirs |-> Dir("main.tf#1", "absent", "")]
    /\ state = [u \in Units |-> NoRecord]
    /\ last = NoCall
    /\ dirty = {}
    /\ calls = [u \in Units |-> Idle]

\* The verbs as the host may issue them, with any plan and any outcome of
\* the external processes.
Next ==
    \/ \E u \in Units, id \in ImportIds : ImportState(u, id)
    \/ \E u \in Units, args \in PlanArgs, env \in Envs : Create(u, u, args, env)
    \/ \E u \in Units : Read(u)
    \/ \E u \in Units, args \in PlanArgs, env \in Envs : Update(u, u, args, env)
    \/ \E u \in Units : Delete(u)
    \/ \E d \in Dirs, a \in ArtifactStates : ArtifactChange(d, a)

Spec == Init /\ [][Next]_vars

\* One resource provisioned with every args list up to MaxArgs elements.
NextArgs ==
    \/ \E args \in AllArgs, env \in Envs : Create("first", "first", args, env)
    \/ \E args \in AllArgs, env \in Envs : Update("first", "first", args, env)
    \/ Delete("first")

SpecArgs == Init /\ [][NextArgs]_vars

(***************************************************************************)
(*            The host: `terraform apply` of the README's config           *)
(***************************************************************************)
\* resource "pteraform_apply" "<u>" { working_dir = "${path.module}/<u>" }
ConfigModel(u, id) == Model(NewStringValue(u), NullList, id)

\* Any response that reports an error.
Failed(resp) == \E i \in 1..Len(resp.diags) : resp.diags[i].severity = "error"

\* One run of the host for one resource of the README's config.  With no
\* record it calls Create.  With a record it refreshes it with Read, plans
\* working_dir and args from the configuration and id from the schema's plan
\* modifier, and calls Update only when the plan differs from the refreshed
\* record.  A Create that reports an error leaves the resource to be
\* replaced by the next run (Delete, which does nothing, then Create), so
\* its record is dropped.
HostResponse(u, fsys, env) ==
    IF ~state[u].present
    THEN LET c == CreateResponse(ConfigModel(u, UnknownString), fsys, env)
         IN  IF Failed(c) THEN [c EXCEPT !.record = NoRecord] ELSE c
    ELSE LET refresh == ReadResponse(state[u].data, fsys)
             planned == ConfigModel(u, PlannedId(refresh.record))
         IN  IF Failed(refresh) \/ planned = refresh.record.data
             THEN refresh
             ELSE UpdateResponse(planned, fsys, env)

HostReconcile(u, env) ==
    /\ u \in Units
    /\ Finish("Reconcile", u, HostResponse(u, fs, env))

\* The user edits the files of a managed directory, or its terraform.tfstate
\* changes.
EditDirectory(d, conf, a) ==
    /\ Dir(conf, a.art, a.bytes) # fs[d]
    /\ fs' = [fs EXCEPT ![d] = Dir(conf, a.art, a.bytes)]
    /\ dirty' = dirty \cup {d}
    /\ last' = NoCall
    /\ UNCHANGED <<state, calls>>

NextHost ==
    \/ \E u \in Units, env \in Envs : HostReconcile(u, env)
    \/ \E u \in Units, id \in ImportIds : ImportState(u, id)
    \/ \E d \in Units, conf \in Confs, a \in ArtifactStates : EditDirectory(d, conf, a)

SpecHost == Init /\ [][NextHost]_vars

(***************************************************************************)
(*                   Cancellation of the call's context                    *)
(***************************************************************************)
Phases == {"init", "apply"}

\* Both processes are made with exec.CommandContext(ctx, ...): when ctx is
\* done while the process runs, the process is killed and cmd.Run returns
\* the error of its exit.  A cancellation during init is an init whose Run
\* fails; one during apply is an apply whose Run fails, and the killed
\* apply may or may not have written terraform.tfstate by then.  doApply
\* and the handlers never look at ctx.Err().
CancelEnv(phase, w) ==
    IF phase = "init" THEN Env(FALSE, FALSE, NoWrite) ELSE Env(TRUE, FALSE, w)

\* A Create whose context is cancelled while the process of `phase` runs.
CreateCancelled(u, wd, args, phase, w) ==
    /\ ~state[u].present
    /\ (phase = "apply" => ~ElementsAs(args).hasError)
    /\ LET resp == CreateResponse(Model(NewStringValue(wd), args, UnknownString),
                                  fs, CancelEnv(phase, w))
       IN  /\ fs' = resp.fs
           /\ state' = [state EXCEPT ![u] = resp.record]
           /\ last' = [Returned("Create", u, resp) EXCEPT !.cancelled = phase]
           /\ dirty' = dirty \ Applied(resp.cmds)
           /\ UNCHANGED calls

\* An Update whose context is cancelled while the process of `phase` runs.
UpdateCancelled(u, wd, args, phase, w) ==
    /\ state[u].present
    /\ (phase = "apply" => ~ElementsAs(args).hasError)
    /\ LET resp == UpdateResponse(Model(NewStringValue(wd), args, PlannedId(state[u])),
                                  fs, CancelEnv(phase, w))
       IN  /\ fs' = resp.fs
           /\ state' = [state EXCEPT ![u] = resp.record]
           /\ last' = [Returned("Update", u, resp) EXCEPT !.cancelled = phase]
           /\ dirty' = dirty \ Applied(resp.cmds)
           /\ UNCHANGED calls

\* One resource whose calls may be cancelled, beside calls that run to
\* their end.
NextCancel ==
    \/ \E args \in PlanArgs, phase \in Phases, w \in Writes :
           CreateCancelled("first", "first", args, phase, w)
    \/ \E args \in PlanArgs, phase \in Phases, w \in Writes :
           UpdateCancelled("first", "first", args, phase, w)
    \/ \E args \in PlanArgs, env \in Envs : Create("first", "first", args, env)
    \/ \E args \in PlanArgs, env \in Envs : Update("first", "first", args, env)
    \/ Read("first")
    \/ Delete("first")
    \/ \E a \in ArtifactStates : ArtifactChange("first", a)

SpecCancel == Init /\ [][NextCancel]_vars

(***************************************************************************)
(*          Calls of the two resources, interleaved step by step           *)
(***************************************************************************)
\* The host calls the provider for both resources at once (one goroutine per
\* request); a call of Create or Update goes through: decode the plan, run
\* init, decode the args and run apply, then ID() and resp.State.Set.

\* The args the plans carry here: none, and one flag.
ConcArgs == {NullList, NewListValue(<<NewStringValue("-var=a=1")>>)}

\* The model a call works on, as the call that shares a field of the
\* resource with every other call would see it: the other call, when one
\* is in progress, has overwritten it.
CallDataShared(u) ==
    IF \E v \in Units \ {u} : calls[v].pc # "idle"
    THEN calls[CHOOSE v \in Units \ {u} : calls[v].pc # "idle"].data
    ELSE calls[u].data

\* var data ApplyResourceModel: a local of the handler, passed by value to
\* doApply and used through its own pointer by ID().  ApplyResource is an
\* empty struct, so there is nothing else a call could read it from.
CallData(u) == calls[u].data

\* req.Plan.Get(ctx, &data) of Create or Update.
BeginProvision(u, verb, args) ==
    /\ calls[u].pc = "idle"
    /\ verb = IF state[u].present THEN "Update" ELSE "Create"
    /\ calls' = [calls EXCEPT ![u] =
                     [Idle EXCEPT !.pc = "init", !.verb = verb,
                                  !.data = Model(NewStringValue(u), args, PlannedId(state[u])),
                                  !.d0 = [art |-> fs[u].art, bytes |-> fs[u].bytes]]]
    /\ last' = NoCall
    /\ UNCHANGED <<fs, state, dirty>>

\* req.State.Get(ctx, &data) of Read.
BeginRead(u) ==
    /\ calls[u].pc = "idle"
    /\ state[u].present
    /\ calls' = [calls EXCEPT ![u] =
                     [Idle EXCEPT !.pc = "resolve", !.verb = "Read",
                                  !.data = state[u].data,
                                  !.d0 = [art |-> fs[u].art, bytes |-> fs[u].bytes]]]
    /\ last' = NoCall
    /\ UNCHANGED <<fs, state, dirty>>

\* The init process of the call returns (lines 92-99), and with a nil error
\* the args are decoded (104-107).
InitReturns(u, ok) ==
    /\ calls[u].pc = "init"
    /\ LET c == calls[u]
           data == CallData(u)
           cmd == Cmd(ValueString(data.WorkingDir), InitArgv, ok, SomeOutput)
       IN  calls' = [calls EXCEPT ![u] =
               IF ~ok
               THEN [c EXCEPT !.pc = "resolve", !.cmds = <<cmd>>,
                              !.err = "terraform init failed",
                              !.output = Write(EmptyBuffer, cmd.out)]
               ELSE IF ElementsAs(data.Args).hasError
               THEN [c EXCEPT !.pc = "resolve", !.cmds = <<cmd>>,
                              !.err = "errors getting args",
                              !.env = Env(TRUE, FALSE, NoWrite)]
               ELSE [c EXCEPT !.pc = "apply", !.cmds = <<cmd>>,
                              !.env = Env(TRUE, FALSE, NoWrite)]]
    /\ last' = NoCall
    /\ UNCHANGED <<fs, state, dirty>>

\* The apply process of the call returns (lines 108-117).
ApplyReturns(u, ok, w) ==
    /\ calls[u].pc = "apply"
    /\ LET c == calls[u]
           data == CallData(u)
           dir == ValueString(data.WorkingDir)
           cmd == Cmd(dir, ApplyArgv(ElementsAs(data.Args).out), ok, SomeOutput)
       IN  /\ calls' = [calls EXCEPT ![u] =
                   [c EXCEPT !.pc = "resolve", !.cmds = Append(@, cmd),
                             !.err = IF ok THEN Nil ELSE "terraform apply failed",
                             !.output = IF ok THEN <<>> ELSE Write(EmptyBuffer, cmd.out),
                             !.env = Env(TRUE, ok, w)]]
           /\ fs' = TerraformApply(fs, dir, w)
           /\ dirty' = dirty \ {Resolve(dir)}
    /\ last' = NoCall
    /\ UNCHANGED state

\* The end of Create, Read and Update: the diagnostic of doApply's error,
\* data.ID(), data.Id = ..., resp.State.Set, return.
ResolveAndStore(u) ==
    /\ calls[u].pc = "resolve"
    /\ LET c == calls[u]
           data == CallData(u)
           r == ID(data, fs)
           resp == [diags |-> RunDiag(c) \o DiagIf(r.err, IdPrefix),
                    req |-> data,
                    cmds |-> c.cmds,
                    resolved |-> TRUE,
                    set |-> TRUE,
                    record |-> Record([data EXCEPT !.Id = NewStringValue(r.id)]),
                    fs |-> fs]
       IN  /\ state' = [state EXCEPT ![u] = resp.record]
           /\ last' = Returned(c.verb, u, resp)
    /\ calls' = [calls EXCEPT ![u] = Idle]
    /\ UNCHANGED <<fs, dirty>>

\* Delete has no step at which another call could come in between.
DeleteIdle(u) ==
    /\ calls[u].pc = "idle"
    /\ Delete(u)

NextConc ==
    \/ \E u \in Units, verb \in {"Create", "Update"}, args \in ConcArgs :
           BeginProvision(u, verb, args)
    \/ \E u \in Units : BeginRead(u)
    \/ \E u \in Units, ok \in BOOLEAN : InitReturns(u, ok)
    \/ \E u \in Units, ok \in BOOLEAN, w \in Writes : ApplyReturns(u, ok, w)
    \/ \E u \in Units : ResolveAndStore(u)
    \/ \E u \in Units : DeleteIdle(u)

SpecConc == Init /\ [][NextConc]_vars

\* What the call of u that is about to return would have returned had it
\* run alone and in one piece, in the directory as it was when it began and
\* with the outcomes its own processes had.
Alone(u) ==
    LET c == calls[u]
        fs0 == [fs EXCEPT ![u] = Dir(@.conf, c.d0.art, c.d0.bytes)]
    IN  IF c.verb = "Read" THEN ReadResponse(c.data, fs0)
        ELSE IF c.verb = "Create" THEN CreateResponse(c.data, fs0, c.env)
        ELSE UpdateResponse(c.data, fs0, c.env)

(***************************************************************************)
(*                 Processes with any output: one resource                 *)
(***************************************************************************)
\* A chunk written to stdout and one written to stderr.
OutChunks == {"out", "err"}

\* What a process may have written, in the order cmd.Stdout and cmd.Stderr
\* received it.
Outputs == SeqsUpTo(OutChunks, MaxOut)

\* The outcomes of a cycle with any output of init and of apply: init
\* fails; or init succeeds and apply succeeds and writes a state, or fails
\* and writes none.  (What apply leaves on disk is varied in Spec.)
EnvsOut ==
    {[Env(FALSE, FALSE, NoWrite) EXCEPT !.initOut = a] : a \in Outputs}
    \cup {[Env(TRUE, ok, IF ok THEN [write |-> TRUE, art |-> "ok", bytes |-> "serial=1"]
                               ELSE NoWrite)
              EXCEPT !.initOut = a, !.applyOut = b] :
             ok \in BOOLEAN, a \in Outputs, b \in Outputs}

\* The args of the plans here: none, and one flag.
OutputArgs == {NullList, NewListValue(<<NewStringValue("-var=a=1")>>)}

NextOutput ==
    \/ \E args \in OutputArgs, env \in EnvsOut : Create("first", "first", args, env)
    \/ \E args \in OutputArgs, env \in EnvsOut : Update("first", "first", args, env)
    \/ Delete("first")

SpecOutput == Init /\ [][NextOutput]_vars

(***************************************************************************)
(*                     What the response of a call shows                   *)
(***************************************************************************)
Provisioning(l) == l.verb \in {"Create", "Update"}

HasError(l) == \E i \in 1..Len(l.diags) : l.diags[i].severity = "error"

\* The errors reported with a given prefix.
ErrorsWith(l, prefix) ==
    {l.diags[i].detail[2] : i \in {j \in 1..Len(l.diags) : l.diags[j].detail[1] = prefix}}

InitFailed(l) == \E i \in 1..Len(l.cmds) : l.cmds[i].Args = InitArgv /\ ~l.cmds[i].ok

ApplyInvoked(l) == \E i \in 1..Len(l.cmds) : l.cmds[i].Args[2] = "apply"

ApplyFailed(l) == \E i \in 1..Len(l.cmds) : l.cmds[i].Args[2] = "apply" /\ ~l.cmds[i].ok

\* The record of the resource the last call was about, and its artifact.
LastData == state[last.unit].data
LastArtifact == fs[Resolve(ValueString(LastData.WorkingDir))]

(***************************************************************************)
(*                                 Claims                                  *)
(***************************************************************************)

\* C1: in a provisioning cycle run by Create or Update, when `terraform init`
\* fails, `terraform apply` is not invoked in that cycle and the error the
\* cycle returns is the one of init, not of apply.
C1_PhaseGating ==
    (Provisioning(last) /\ InitFailed(last))
        => /\ ~ApplyInvoked(last)
           /\ ErrorsWith(last, RunPrefix) = {"terraform init failed"}

\* C1 witness: an Update whose init failed has returned.
C1_Witness ==
    /\ last.verb = "Update"
    /\ InitFailed(last)
    /\ Len(last.cmds) = 1

\* What went wrong in the cycle of a Create or Update: a process exited with
\* an error, or the args could not be decoded.
CycleFailed(l) ==
    \/ \E i \in 1..Len(l.cmds) : ~l.cmds[i].ok
    \/ (Len(l.cmds) = 1 /\ ElementsAs(LastData.Args).hasError)

\* C2: in Create and Update a failure of init, of apply or of the identity
\* resolution aborts the call before the identity is stored: after a failed
\* cycle ID() is not run, and a failing call does not set the state.
C2_AbortBeforeStore ==
    /\ (Provisioning(last) /\ CycleFailed(last)) => ~last.resolved
    /\ (Provisioning(last) /\ HasError(last))
           => (~last.set /\ (last.verb = "Create" => ~state[last.unit].present))

\* C3: after a Create or Update in which init or apply failed, the record
\* the host sees does not carry a digest as its id, also when the directory
\* already held a terraform.tfstate of an earlier run.
C3_NoIdentityAfterFailure ==
    (Provisioning(last) /\ (InitFailed(last) \/ ApplyFailed(last)))
        => ~(state[last.unit].present /\ LastData.Id.value \in Digests)

\* C4: a Read in a directory without terraform.tfstate reports the failure
\* to open it, and no empty-string id is stored.
C4_MissingArtifact ==
    (last.verb = "Read" /\ LastData.WorkingDir.kind = "known" /\ LastArtifact.art = "absent")
        => /\ ErrorsWith(last, IdPrefix) = {"Unable to open terraform.tfstate"}
           /\ ~(state[last.unit].present /\ LastData.Id = NewStringValue(""))

C6_DeleteNoOp ==
    [][\A u \in Units : Delete(u) => (fs' = fs /\ last'.cmds = <<>>)]_vars

\* C6 witness: a Delete has returned and the terraform.tfstate of its
\* directory is still there.
C6_Witness ==
    /\ last.verb = "Delete"
    /\ fs[last.unit].art = "ok"
    /\ fs[last.unit].bytes = "serial=1"

\* C8: a Read whose identity resolution fails (terraform.tfstate missing or
\* unreadable) does not hand back the id the state held before the call: the
\* id it sets is the empty string, which differs from any digest or imported
\* id held before.
C8_NoStaleIdentity ==
    (last.verb = "Read" /\ LastArtifact.art # "ok")
        => /\ LastData.Id = NewStringValue("")
           /\ (last.priorId.value # "" => LastData.Id # last.priorId)

\* C8 witness: a Read has failed on a resource whose state held a digest.
C8_Witness ==
    /\ last.verb = "Read"
    /\ LastArtifact.art = "absent"
    /\ last.priorId.value \in Digests
    /\ HasError(last)

\* The args of the plan could not be decoded (init had succeeded).
ArgsFailed(l) ==
    /\ Provisioning(l)
    /\ Len(l.cmds) = 1
    /\ l.cmds[1].ok
    /\ ElementsAs(LastData.Args).hasError

\* C9: every failure of a call -- init failing, apply failing, args that
\* cannot be decoded, terraform.tfstate missing or unreadable -- is in the
\* diagnostics of that call as an error, and no diagnostic is a warning.
C9_EveryFailureSurfaced ==
    /\ \A i \in 1..Len(last.diags) : last.diags[i].severity = "error"
    /\ (last.verb \in {"Create", "Read", "Update"}) =>
           /\ InitFailed(last) => "terraform init failed" \in ErrorsWith(last, RunPrefix)
           /\ ApplyFailed(last) => "terraform apply failed" \in ErrorsWith(last, RunPrefix)
           /\ ArgsFailed(last) => "errors getting args" \in ErrorsWith(last, RunPrefix)
           /\ (LastArtifact.art = "absent")
                  => "Unable to open terraform.tfstate" \in ErrorsWith(last, IdPrefix)
           /\ (LastArtifact.art = "ioerr")
                  => "Unable to read terraform.tfstate" \in ErrorsWith(last, IdPrefix)

\* C9 witness: a Create whose apply failed and whose terraform.tfstate could
\* not be read has returned with both errors.
C9_Witness ==
    /\ last.verb = "Create"
    /\ ApplyFailed(last)
    /\ LastArtifact.art = "ioerr"
    /\ Len(last.diags) = 2

\* C10: the apply process gets terraform apply -auto-approve followed by the
\* plan's args, each unchanged and in the plan's order, and the init process
\* gets no args of the caller.
C10_ArgumentsVerbatim ==
    Provisioning(last) =>
        LET elems == LastData.Args.elems
        IN  \A i \in 1..Len(last.cmds) :
                LET argv == last.cmds[i].Args
                IN  IF i = 1
                    THEN argv = <<"terraform", "init">>
                    ELSE /\ Len(argv) = 3 + Len(elems)
                         /\ argv[1] = "terraform"
                         /\ argv[2] = "apply"
                         /\ argv[3] = "-auto-approve"
                         /\ \A k \in 1..Len(elems) : argv[3 + k] = elems[k].value

\* C10 witness: apply has run with two args, given in the order b, a.
C10_Witness ==
    /\ last.verb = "Create"
    /\ Len(last.cmds) = 2
    /\ LastData.Args.elems = <<NewStringValue("-var=b=2"), NewStringValue("-var=a=1")>>
    /\ last.cmds[2].Args[4] = "-var=b=2"

\* C7: when the contents of a managed directory have changed, the next run
\* of the host applies that directory again, and runs nothing in any other
\* directory; a resource whose directory has not changed is skipped.
C7_ChangedDirectoryReapplied ==
    (last.verb = "Reconcile" /\ last.existed /\ ~HasError(last)) =>
        /\ last.changed => ApplyInvoked(last)
        /\ \A i \in 1..Len(last.cmds) : last.cmds[i].Dir = last.unit
        /\ (~last.changed /\ last.priorId.value \in Digests) => last.cmds = <<>>

\* C11: a Read that follows directly on a Read of the same resource, with no
\* provisioning and no change of terraform.tfstate in between, sets the id
\* the Read before it had set; and the id a Read sets from a readable
\* terraform.tfstate depends on the bytes of that file only, the same bytes
\* giving the same id in every directory and after every history.
C11_ReadIdempotent ==
    /\ (last.verb = "Read" /\ last.reread) => LastData.Id = last.priorId
    /\ \A b \in Contents :
           (last.verb = "Read" /\ LastArtifact.art = "ok" /\ LastArtifact.bytes = b)
               => LastData.Id = NewStringValue(Sha256Hex(b))

\* C11 witness: the second of two Reads in a row has returned the digest of
\* a non-empty terraform.tfstate.
C11_Witness ==
    /\ last.verb = "Read"
    /\ last.reread
    /\ LastArtifact.art = "ok"
    /\ LastArtifact.bytes = "serial=1"
    /\ LastData.Id.value \in Digests

\* C12: when the context of a Create or Update is cancelled while init or
\* apply runs, the process is ended and none is started after it, the call
\* reports an error that is not the one of a process that failed by itself,
\* and no identity is stored: resp.State.Set is not called and the record
\* holds no digest.
C12_CancellationAborts ==
    (last.cancelled # "none") =>
        /\ ~last.cmds[Len(last.cmds)].ok
        /\ (last.cancelled = "init" => Len(last.cmds) = 1)
        /\ HasError(last)
        /\ ErrorsWith(last, RunPrefix)
               \cap {"terraform init failed", "terraform apply failed"} = {}
        /\ ~last.set
        /\ ~(state[last.unit].present /\ LastData.Id.value \in Digests)

\* C13: with calls of the two resources interleaved in any way, the call of
\* one resource returns what it would have returned had it run alone: the
\* same processes with the same directory and arguments, the same
\* diagnostics, the same record with the same id, the same
\* terraform.tfstate in its directory; and it leaves the record, the
\* directory and the call in progress of the other resource as they were.
C13_Independent ==
    [][\A u \in Units :
           ResolveAndStore(u) =>
               /\ last'.cmds = Alone(u).cmds
               /\ last'.diags = Alone(u).diags
               /\ state'[u] = Alone(u).record
               /\ fs'[u] = Alone(u).fs[u]
               /\ \A v \in Units \ {u} :
                      state'[v] = state[v] /\ fs'[v] = fs[v] /\ calls'[v] = calls[v]]_vars

\* C13 witness: the Update of first has returned after its apply, while the
\* Update of second is between its init and its apply and second's
\* directory already holds a terraform.tfstate.
C13_Witness ==
    /\ last.verb = "Update"
    /\ last.unit = "first"
    /\ Len(last.cmds) = 2
    /\ LastData.Id.value \in Digests
    /\ calls["second"].pc = "apply"
    /\ calls["second"].verb = "Update"
    /\ fs["second"].art = "ok"

\* C14: for every plan and every outcome of the processes, with any record
\* in the state, Update gives the response Create gives for that plan; and
\* every Update has run init in the planned directory, then, when init
\* succeeded and the args decoded, apply with the planned args, then ID()
\* and resp.State.Set, also when the plan has the working_dir and args of
\* the record the state held.
C14_UpdateAsCreate ==
    /\ \A u \in Units, args \in PlanArgs, env \in Envs :
           LET data == Model(NewStringValue(u), args, PlannedId(state[u]))
           IN  UpdateResponse(data, fs, env) = CreateResponse(data, fs, env)
    /\ (last.verb = "Update") =>
           /\ Len(last.cmds) >= 1
           /\ last.cmds[1].Args = InitArgv
           /\ last.cmds[1].Dir = last.req.WorkingDir.value
           /\ (last.cmds[1].ok /\ ~ElementsAs(last.req.Args).hasError)
                  => /\ Len(last.cmds) = 2
                     /\ last.cmds[2].Args = ApplyArgv(ElementsAs(last.req.Args).out)
                     /\ last.cmds[2].Dir = last.req.WorkingDir.value
           /\ last.resolved
           /\ last.set

\* C14 witness: an Update of a resource whose record already held the
\* digest of the terraform.tfstate has run init and apply and has stored
\* that id again.
C14_Witness ==
    /\ last.verb = "Update"
    /\ last.req.Id = last.priorId
    /\ Len(last.cmds) = 2
    /\ ~HasError(last)
    /\ last.priorId.value \in Digests
    /\ LastData.Id = last.priorId

\* C15: a Read runs neither init nor apply and leaves every directory,
\* terraform.tfstate included, as it was; it calls ID() and sets as id the
\* digest of the terraform.tfstate that is on disk in the record's
\* directory (the empty string when there is none to read).
C15_ReadNoProvisioning ==
    [][\A u \in Units :
           Read(u) =>
               LET f == fs[Resolve(ValueString(state[u].data.WorkingDir))]
               IN  /\ fs' = fs
                   /\ last'.cmds = <<>>
                   /\ last'.resolved
                   /\ state'[u].present
                   /\ state'[u].data.Id =
                          NewStringValue(IF f.art = "ok" THEN Sha256Hex(f.bytes) ELSE "")]_vars

\* C15 witness: a Read has replaced the id of the record by the digest of
\* the terraform.tfstate on disk, and has run no process.
C15_Witness ==
    /\ last.verb = "Read"
    /\ last.cmds = <<>>
    /\ LastArtifact.art = "ok"
    /\ last.priorId.value \in Digests
    /\ LastData.Id.value \in Digests
    /\ LastData.Id # last.priorId

\* C16: no call runs init more than once or apply more than once; a process
\* that failed is the last one the call ran; a Create or Update runs at
\* least init; and a Read, a Delete or an import runs no process.
C16_AtMostOneAttempt ==
    LET n == Len(last.cmds)
        inits == {i \in 1..n : last.cmds[i].Args = InitArgv}
        applies == {i \in 1..n : last.cmds[i].Args[2] = "apply"}
    IN  /\ Cardinality(inits) <= 1
        /\ Cardinality(applies) <= 1
        /\ inits \cup applies = 1..n
        /\ \A i \in 1..n : ~last.cmds[i].ok => i = n
        /\ Provisioning(last) => 1 \in inits
        /\ (last.verb \in {"Read", "Delete", "ImportState"}) => n = 0

\* C16 witness: a Create whose apply failed has returned after one init and
\* one apply.
C16_Witness ==
    /\ last.verb = "Create"
    /\ ApplyFailed(last)
    /\ Len(last.cmds) = 2
    /\ last.cmds[1].Args = InitArgv
    /\ last.cmds[2].Args[2] = "apply"

\* C17: after an import the record holds the given string as id and neither
\* working_dir nor args; and a Read of such a record sets as id the digest
\* of the terraform.tfstate in the directory of that resource, when that
\* file can be read: not the empty string, and not the digest of a file
\* elsewhere.
C17_ImportThenRead ==
    /\ (last.verb = "ImportState") =>
           /\ state[last.unit].present
           /\ LastData.Id.kind = "known" /\ LastData.Id.value \in ImportIds
           /\ LastData.WorkingDir = NullString
           /\ LastData.Args = NullList
    /\ (last.verb = "Read" /\ LastData.WorkingDir = NullString
            /\ fs[last.unit].art = "ok")
           => LastData.Id = NewStringValue(Sha256Hex(fs[last.unit].bytes))

\* The outputs that the diagnostics of doApply's error carry.
RunOutputs(l) ==
    {l.diags[i].detail[3] : i \in {j \in 1..Len(l.diags) : l.diags[j].detail[1] = RunPrefix}}

\* C18: the error of a failed init carries what the init process wrote, in
\* the order written, and nothing else; the error of a failed apply carries
\* what the apply process wrote, in the order written, and nothing else, so
\* nothing of what the init before it wrote.
C18_OutputPerPhase ==
    Provisioning(last) =>
        /\ InitFailed(last) => RunOutputs(last) = {last.cmds[1].out}
        /\ ApplyFailed(last) => RunOutputs(last) = {last.cmds[2].out}

\* C18 witness: an apply that wrote to stdout and to stderr has failed after
\* an init that wrote something else, and the error carries apply's output.
C18_Witness ==
    /\ last.verb = "Create"
    /\ ApplyFailed(last)
    /\ last.cmds[1].out = <<"out", "out">>
    /\ last.cmds[2].out = <<"err", "out">>
    /\ RunOutputs(last) = {<<"err", "out">>}

\* C19: the record a Create, Update or Read stores has the working_dir and
\* the args of the model the handler decoded -- for Create and Update the
\* plan, whose working_dir is the directory of the resource, for Read the
\* record the state held, whose id was the prior id -- and differs from
\* that model in nothing but the id.
C19_AttributesKept ==
    (last.verb \in {"Create", "Update", "Read"}) =>
        /\ last.set /\ state[last.unit].present
        /\ LastData.WorkingDir = last.req.WorkingDir
        /\ LastData.Args = last.req.Args
        /\ LastData = [last.req EXCEPT !.Id = LastData.Id]
        /\ Provisioning(last) => last.req.WorkingDir = NewStringValue(last.unit)
        /\ (last.verb = "Read") => last.req.Id = last.priorId

\* C19 witness: an Update whose plan has args has stored a new id and the
\* args of the plan.
C19_Witness ==
    /\ last.verb = "Update"
    /\ last.req.Args = NewListValue(<<NewStringValue("-var=a=1")>>)
    /\ LastData.Args = NewListValue(<<NewStringValue("-var=a=1")>>)
    /\ LastData.WorkingDir = NewStringValue(last.unit)
    /\ LastData.Id.value \in Digests
    /\ LastData.Id # last.priorId

====
